---- MODULE Spec2Model ----
(***************************************************************************)
(* A model of yapper_analysis.py: the loader (read_data), the three        *)
(* quality checks, the three aggregators and the main script that runs     *)
(* them in sequence over one working table df.                             *)
(*                                                                         *)
(* A table is a sequence of records (one record per row, in row order).    *)
(* A ds string 'YYYY-MM-DD' is the tuple <<YYYY, MM, DD>>: comparing two   *)
(* such zero-padded strings is comparing the tuples lexicographically.     *)
(* A float that the code computes by a division is kept exact, as the      *)
(* record [num |-> n, den |-> d].                                          *)
(***************************************************************************)
EXTENDS Integers, Sequences, FiniteSets, TLC

VARIABLES act, ind, top_n, pc, error, df, inactive_list, cohort_chk,
          missing_dts, ind_users, cntry_summ, dly_summ, charts

vars == <<act, ind, top_n, pc, error, df, inactive_list, cohort_chk,
          missing_dts, ind_users, cntry_summ, dly_summ, charts>>

(***************************************************************************)
(* Bounds of the model.                                                    *)
(***************************************************************************)
MaxRows == 3
MaxIndRows == 3
MaxTopN == 2

(***************************************************************************)
(* Program constants.                                                      *)
(***************************************************************************)
TopNMain == 5
WeekDays == 7
NumCharts == 6
MsgScale == 1000000

\* '2020-07-25' and '2020-07-01'
EndJulCutoff == <<2020, 7, 25>>
LastMonthCutoff == <<2020, 7, 1>>

\* the value pandas gives a missing cell
NaN == <<"NaN">>
\* a variable of the main script that has not been assigned yet
Unassigned == <<[unassigned |-> TRUE]>>

(***************************************************************************)
(* Generic helpers over sequences and sets.                                *)
(***************************************************************************)
Range(s) == {s[i] : i \in DOMAIN s}

SetMax(S) == CHOOSE x \in S : \A y \in S : y <= x
SetMin(S) == CHOOSE x \in S : \A y \in S : x <= y

RECURSIVE SortedList(_)
\* the elements of a set of integers as an ascending list
SortedList(S) ==
    IF S = {} THEN <<>>
    ELSE LET m == SetMin(S) IN <<m>> \o SortedList(S \ {m})

RECURSIVE SumOf(_, _)
\* the sum of column col over the rows of table t
SumOf(t, col) ==
    IF t = <<>> THEN 0 ELSE Head(t)[col] + SumOf(Tail(t), col)

\* every ordering of the finite set S in which no element precedes one that
\* the relation before puts strictly before it (the outcomes of an unstable
\* sort)
Orderings(S, before) ==
    {s \in [1..Cardinality(S) -> S] :
        /\ \A i, j \in 1..Cardinality(S) : i /= j => s[i] /= s[j]
        /\ \A i, j \in 1..Cardinality(S) : i < j => <<s[j], s[i]>> \notin before}

\* comparison of two ds strings: a >= b
StrGE(a, b) ==
    \/ a[1] > b[1]
    \/ a[1] = b[1] /\ a[2] > b[2]
    \/ a[1] = b[1] /\ a[2] = b[2] /\ a[3] >= b[3]

StrLT(a, b) == ~StrGE(a, b)

\* comparison of two exact quotients with positive denominators: a > b
QGreater(a, b) == a.num * b.den > b.num * a.den

(***************************************************************************)
(* read_data                                                               *)
(***************************************************************************)
HealthCare == <<"Health", " ", "Care">>
Healthcare == <<"Healthcare">>

IsPrefix(p, s) == Len(p) <= Len(s) /\ SubSeq(s, 1, Len(p)) = p

RECURSIVE str_replace(_, _, _)
\* Series.str.replace(old, new) on one cell: every non-overlapping
\* occurrence of old, scanning from the left, becomes new
str_replace(s, old, new) ==
    IF s = <<>> THEN <<>>
    ELSE IF IsPrefix(old, s)
         THEN new \o str_replace(SubSeq(s, Len(old) + 1, Len(s)), old, new)
         ELSE <<Head(s)>> \o str_replace(Tail(s), old, new)

\* ind['industry'] = ind['industry'].str.replace('Health Care', 'Healthcare')
conform_industries(indmap) ==
    [i \in DOMAIN indmap |->
        [industry_id |-> indmap[i].industry_id,
         industry |-> str_replace(indmap[i].industry, HealthCare, Healthcare)]]

JoinRow(a, industry) ==
    [ds |-> a.ds, team_id |-> a.team_id, country |-> a.country,
     industry_id |-> a.industry_id, active_users |-> a.active_users,
     messages_7d |-> a.messages_7d, industry |-> industry]

\* variant: the rows of an inner join (how = 'inner')
JoinedRowsOf_inner(a, indmap) ==
    LET hits == SelectSeq(indmap, LAMBDA m : m.industry_id = a.industry_id)
    IN  [k \in DOMAIN hits |-> JoinRow(a, hits[k].industry)]

\* the rows one activity row a joins to, in the order of the map
JoinedRowsOf(a, indmap) ==
    LET hits == SelectSeq(indmap, LAMBDA m : m.industry_id = a.industry_id)
    IN  IF hits = <<>> THEN <<JoinRow(a, NaN)>>
        ELSE [k \in DOMAIN hits |-> JoinRow(a, hits[k].industry)]

RECURSIVE merge_left(_, _)
\* pd.merge(act, ind, how = 'left', on = 'industry_id')
merge_left(a, indmap) ==
    IF a = <<>> THEN <<>>
    ELSE JoinedRowsOf(Head(a), indmap) \o merge_left(Tail(a), indmap)

\* read_csv of a file without any line raises EmptyDataError
read_data_raises(a) == a = <<>>

read_data(a, indmap) == merge_left(a, conform_industries(indmap))

(***************************************************************************)
(* check_no_active_users                                                   *)
(***************************************************************************)
TeamIds(t) == {t[i].team_id : i \in DOMAIN t}

TeamRows(t, team) == SelectSeq(t, LAMBDA r : r.team_id = team)

\* df.groupby(['team_id'])['active_users'].agg(['min', 'max'])
dau_check(t) ==
    [team \in TeamIds(t) |->
        LET u == {r.active_users : r \in Range(TeamRows(t, team))}
        IN  [min |-> SetMin(u), max |-> SetMax(u)]]

\* variant: the filter column is min + min
check_no_active_users_min(t) ==
    LET chk == dau_check(t)
        filter == [team \in DOMAIN chk |-> chk[team].min + chk[team].min]
    IN  SortedList({team \in DOMAIN chk : filter[team] = 0})

check_no_active_users(t) ==
    LET chk == dau_check(t)
        filter == [team \in DOMAIN chk |-> chk[team].max + chk[team].max]
    IN  SortedList({team \in DOMAIN chk : filter[team] = 0})

(***************************************************************************)
(* check_consistent_cohort                                                 *)
(***************************************************************************)
\* df.groupby(['team_id'])['active_users'].count()
cohort_counts(t) == [team \in TeamIds(t) |-> Len(TeamRows(t, team))]

\* variant: the counts are compared with min(cohort_chk)
check_consistent_cohort_min(t) ==
    LET cnt == cohort_counts(t)
    IN  IF DOMAIN cnt = {}
        THEN [raises |-> TRUE, value |-> <<>>]
        ELSE LET mn == SetMin({cnt[team] : team \in DOMAIN cnt})
             IN  [raises |-> FALSE,
                  value |-> SortedList({team \in DOMAIN cnt : cnt[team] /= mn})]

\* variant: max(cohort_chk, default = 0), which does not raise
check_consistent_cohort_default(t) ==
    LET cnt == cohort_counts(t)
        mx == IF DOMAIN cnt = {} THEN 0 ELSE SetMax({cnt[team] : team \in DOMAIN cnt})
    IN  [raises |-> FALSE,
         value |-> SortedList({team \in DOMAIN cnt : cnt[team] /= mx})]

\* max(cohort_chk) of an empty series raises ValueError
check_consistent_cohort(t) ==
    LET cnt == cohort_counts(t)
    IN  IF DOMAIN cnt = {}
        THEN [raises |-> TRUE, value |-> <<>>]
        ELSE LET mx == SetMax({cnt[team] : team \in DOMAIN cnt})
             IN  [raises |-> FALSE,
                  value |-> SortedList({team \in DOMAIN cnt : cnt[team] /= mx})]

\* variant: df[df['team_id'].isin(teams)], without the negation
drop_teams_isin(t, teams) == SelectSeq(t, LAMBDA r : r.team_id \in Range(teams))

\* df[~df['team_id'].isin(teams)]
drop_teams(t, teams) == SelectSeq(t, LAMBDA r : r.team_id \notin Range(teams))

(***************************************************************************)
(* check_missing_dates                                                     *)
(***************************************************************************)
MonthLen == <<31, 29, 31, 30, 31, 30, 31, 31, 30, 31, 30, 31>>

RECURSIVE DaysBeforeMonth(_)
DaysBeforeMonth(m) == IF m = 1 THEN 0 ELSE MonthLen[m - 1] + DaysBeforeMonth(m - 1)

\* variant: a calendar of 30-day months
to_datetime_30(ds) == 30 * (ds[2] - 1) + ds[3]

\* pd.to_datetime of a ds string of the year 2020: the Timestamp, as the
\* number of the day counted from 2019-12-31
to_datetime(ds) == DaysBeforeMonth(ds[2]) + ds[3]

\* pd.date_range(start, end, freq = 'd')
date_range(start, end) == [i \in 1..(end - start + 1) |-> start + i - 1]

check_missing_dates(t) ==
    LET dates == {to_datetime(r.ds) : r \in Range(t)}
        dt_rng == date_range(SetMin(dates), SetMax(dates))
    IN  SelectSeq(dt_rng, LAMBDA d : d \notin dates)

(***************************************************************************)
(* active_users_by_ind                                                     *)
(***************************************************************************)
\* variant: the cutoff day itself is left out (ds > '2020-07-25')
ind_users_rows_after(t) ==
    LET end_jul_df == SelectSeq(t, LAMBDA r : ~StrGE(EndJulCutoff, r.ds))
        keys == {r.industry : r \in Range(end_jul_df)} \ {NaN}
        total(k) == SumOf(SelectSeq(end_jul_df, LAMBDA r : r.industry = k),
                          "active_users")
    IN  {[industry |-> k, active_users |-> total(k),
          avg_daily_users |-> [num |-> total(k), den |-> WeekDays]] : k \in keys}

\* the rows of the summary, before the sort; groupby drops the rows whose
\* industry is missing
ind_users_rows(t) ==
    LET end_jul_df == SelectSeq(t, LAMBDA r : StrGE(r.ds, EndJulCutoff))
        keys == {r.industry : r \in Range(end_jul_df)} \ {NaN}
        total(k) == SumOf(SelectSeq(end_jul_df, LAMBDA r : r.industry = k),
                          "active_users")
    IN  {[industry |-> k, active_users |-> total(k),
          avg_daily_users |-> [num |-> total(k), den |-> WeekDays]] : k \in keys}

\* the tables sort_values('active_users', ascending = False) can leave
active_users_by_ind(t) ==
    LET rows == ind_users_rows(t)
    IN  Orderings(rows, {p \in rows \X rows : p[1].active_users > p[2].active_users})

(***************************************************************************)
(* avg_team_sz_top_countries                                               *)
(***************************************************************************)
\* groupby(['country']).agg({'team_id':'nunique', 'active_users':'mean'})
cntry_groups(t) ==
    LET cntry_df == SelectSeq(t, LAMBDA r : StrGE(r.ds, LastMonthCutoff))
        keys == {r.country : r \in Range(cntry_df)}
        rows(k) == SelectSeq(cntry_df, LAMBDA r : r.country = k)
    IN  {[country |-> k,
          countd_teams |-> Cardinality(TeamIds(rows(k))),
          avg_team_sz |-> [num |-> SumOf(rows(k), "active_users"),
                           den |-> Len(rows(k))]] : k \in keys}

\* Series.rank(ascending = False), whose default method is 'average': tied
\* values all get the mean of the places they occupy
rank_descending(groups, g) ==
    LET above == Cardinality({h \in groups : h.countd_teams > g.countd_teams})
        tied == Cardinality({h \in groups : h.countd_teams = g.countd_teams})
    IN  [num |-> 2 * above + tied + 1, den |-> 2]

cntry_summ_rows(t, n) ==
    LET groups == cntry_groups(t)
        ranked == {[country |-> g.country, countd_teams |-> g.countd_teams,
                    avg_team_sz |-> g.avg_team_sz,
                    teams_cnt_rank |-> rank_descending(groups, g)] : g \in groups}
    IN  {g \in ranked : g.teams_cnt_rank.num <= n * g.teams_cnt_rank.den}

avg_team_sz_top_countries(t, n) ==
    LET rows == cntry_summ_rows(t, n)
    IN  Orderings(rows, {p \in rows \X rows :
                            QGreater(p[1].avg_team_sz, p[2].avg_team_sz)})

(***************************************************************************)
(* daily_summary_figues                                                    *)
(***************************************************************************)
dly_summ_rows(t) ==
    LET keys == {r.ds : r \in Range(t)}
        rows(k) == SelectSeq(t, LAMBDA r : r.ds = k)
    IN  {[ds |-> k,
          countd_teams |-> Cardinality(TeamIds(rows(k))),
          total_active_users |-> SumOf(rows(k), "active_users"),
          avg_team_users |-> [num |-> SumOf(rows(k), "active_users"),
                              den |-> Len(rows(k))],
          total_msgs_mm |-> [num |-> SumOf(rows(k), "messages_7d"),
                             den |-> MsgScale],
          msgs_per_user |-> [num |-> SumOf(rows(k), "messages_7d"),
                             den |-> SumOf(rows(k), "active_users")]] : k \in keys}

\* groupby(['ds']) leaves the groups in ascending order of the key
daily_summary_figues(t) ==
    LET rows == dly_summ_rows(t)
    IN  CHOOSE s \in Orderings(rows, {p \in rows \X rows : StrLT(p[1].ds, p[2].ds)}) :
            TRUE

(***************************************************************************)
(* The main script, one action per statement.                              *)
(***************************************************************************)
Raise(name) ==
    /\ pc' = "error"
    /\ error' = name

ReadData ==
    /\ pc = "read_data"
    /\ IF read_data_raises(act)
       THEN /\ Raise("EmptyDataError")
            /\ UNCHANGED df
       ELSE /\ df' = read_data(act, ind)
            /\ pc' = "check_no_active_users"
            /\ UNCHANGED error
    /\ UNCHANGED <<act, ind, top_n, inactive_list, cohort_chk, missing_dts,
                   ind_users, cntry_summ, dly_summ, charts>>

CheckNoActiveUsers ==
    /\ pc = "check_no_active_users"
    /\ inactive_list' = check_no_active_users(df)
    /\ pc' = "filter_inactive"
    /\ UNCHANGED <<act, ind, top_n, error, df, cohort_chk, missing_dts,
                   ind_users, cntry_summ, dly_summ, charts>>

FilterInactive ==
    /\ pc = "filter_inactive"
    /\ df' = drop_teams(df, inactive_list)
    /\ pc' = "check_consistent_cohort"
    /\ UNCHANGED <<act, ind, top_n, error, inactive_list, cohort_chk,
                   missing_dts, ind_users, cntry_summ, dly_summ, charts>>

CheckConsistentCohort ==
    /\ pc = "check_consistent_cohort"
    /\ LET r == check_consistent_cohort(df)
       IN  IF r.raises
           THEN /\ Raise("ValueError")
                /\ UNCHANGED cohort_chk
           ELSE /\ cohort_chk' = r.value
                /\ pc' = "filter_cohort"
                /\ UNCHANGED error
    /\ UNCHANGED <<act, ind, top_n, df, inactive_list, missing_dts,
                   ind_users, cntry_summ, dly_summ, charts>>

\* variant: the second filter drops inactive_list once more
FilterCohort_inactive ==
    /\ pc = "filter_cohort"
    /\ df' = drop_teams(df, inactive_list)
    /\ pc' = "check_missing_dates"
    /\ UNCHANGED <<act, ind, top_n, error, inactive_list, cohort_chk,
                   missing_dts, ind_users, cntry_summ, dly_summ, charts>>

FilterCohort ==
    /\ pc = "filter_cohort"
    /\ df' = drop_teams(df, cohort_chk)
    /\ pc' = "check_missing_dates"
    /\ UNCHANGED <<act, ind, top_n, error, inactive_list, cohort_chk,
                   missing_dts, ind_users, cntry_summ, dly_summ, charts>>

CheckMissingDates ==
    /\ pc = "check_missing_dates"
    /\ IF df = <<>>
       THEN /\ Raise("ValueError")
            /\ UNCHANGED missing_dts
       ELSE /\ missing_dts' = check_missing_dates(df)
            /\ pc' = "active_users_by_ind"
            /\ UNCHANGED error
    /\ UNCHANGED <<act, ind, top_n, df, inactive_list, cohort_chk,
                   ind_users, cntry_summ, dly_summ, charts>>

ActiveUsersByInd ==
    /\ pc = "active_users_by_ind"
    /\ ind_users' \in active_users_by_ind(df)
    /\ pc' = "avg_team_sz_top_countries"
    /\ UNCHANGED <<act, ind, top_n, error, df, inactive_list, cohort_chk,
                   missing_dts, cntry_summ, dly_summ, charts>>

AvgTeamSzTopCountries ==
    /\ pc = "avg_team_sz_top_countries"
    /\ cntry_summ' \in avg_team_sz_top_countries(df, top_n)
    /\ pc' = "daily_summary_figues"
    /\ UNCHANGED <<act, ind, top_n, error, df, inactive_list, cohort_chk,
                   missing_dts, ind_users, dly_summ, charts>>

DailySummaryFigues ==
    /\ pc = "daily_summary_figues"
    /\ dly_summ' = daily_summary_figues(df)
    /\ pc' = "charts"
    /\ UNCHANGED <<act, ind, top_n, error, df, inactive_list, cohort_chk,
                   missing_dts, ind_users, cntry_summ, charts>>

\* one of the six chart_... calls, which only display
Chart ==
    /\ pc = "charts"
    /\ charts' = charts + 1
    /\ pc' = IF charts' = NumCharts THEN "done" ELSE "charts"
    /\ UNCHANGED <<act, ind, top_n, error, df, inactive_list, cohort_chk,
                   missing_dts, ind_users, cntry_summ, dly_summ>>

Next ==
    \/ ReadData
    \/ CheckNoActiveUsers
    \/ FilterInactive
    \/ CheckConsistentCohort
    \/ FilterCohort
    \/ CheckMissingDates
    \/ ActiveUsersByInd
    \/ AvgTeamSzTopCountries
    \/ DailySummaryFigues
    \/ Chart

(***************************************************************************)
(* Inputs: the two files and the top_n of the call.                        *)
(***************************************************************************)
ActRow(ds, team, country, industry_id, users) ==
    [ds |-> ds, team_id |-> team, country |-> country,
     industry_id |-> industry_id, active_users |-> users,
     messages_7d |-> 3 * users]

Tables(rows, n) == UNION {[1..k -> rows] : k \in 0..n}

Tech == <<"Tech">>

InitWith(actRows, indTables, topNs) ==
    /\ act \in Tables(actRows, MaxRows)
    /\ ind \in indTables
    /\ top_n \in topNs
    /\ pc = "read_data"
    /\ error = ""
    /\ df = Unassigned
    /\ inactive_list = Unassigned
    /\ cohort_chk = Unassigned
    /\ missing_dts = Unassigned
    /\ ind_users = Unassigned
    /\ cntry_summ = Unassigned
    /\ dly_summ = Unassigned
    /\ charts = 0

OneIndustry == <<[industry_id |-> 1, industry |-> Tech]>>

\* teams, their activity and their presence on two days (a third team on
\* the last day only)
TeamRowsDom ==
    {ActRow(<<2020, 7, d>>, team, "US", 1, u) :
        d \in {30, 31}, team \in {1, 2}, u \in {0, 1}}
    \cup {ActRow(<<2020, 7, 31>>, 3, "US", 1, u) : u \in {0, 1}}

Init == InitWith(TeamRowsDom, {OneIndustry}, {TopNMain})

Spec == Init /\ [][Next]_vars

\* countries and teams on both sides of the month cutoff
CountryRowsDom ==
    {ActRow(ds, team, c, 1, team) :
        ds \in {<<2020, 6, 30>>, <<2020, 7, 1>>}, team \in {1, 2},
        c \in {"US", "CA", "MX"}}

InitCountry == InitWith(CountryRowsDom, {OneIndustry}, 1..MaxTopN)

SpecCountry == InitCountry /\ [][Next]_vars

\* industries and days around the week cutoff, over a month end (industry 3
\* is not in the map)
TwoIndustries ==
    <<[industry_id |-> 1, industry |-> Tech],
      [industry_id |-> 2, industry |-> HealthCare]>>

IndustryRowsDom ==
    {ActRow(ds, 1, "US", i, i) :
        ds \in {<<2020, 7, 24>>, <<2020, 7, 25>>, <<2020, 7, 31>>,
                <<2020, 8, 1>>, <<2020, 8, 2>>},
        i \in {1, 2}}
    \cup {ActRow(<<2020, 7, 31>>, 1, "US", 3, 3)}

InitIndustry == InitWith(IndustryRowsDom, {TwoIndustries}, {TopNMain})

SpecIndustry == InitIndustry /\ [][Next]_vars

\* industry maps with missing and duplicate keys
IndRowsDom ==
    {[industry_id |-> i, industry |-> n] :
        i \in {1, 2}, n \in {Tech, HealthCare}}

JoinRowsDom ==
    {ActRow(<<2020, 7, 31>>, 1, "US", i, 1) : i \in {1, 2, 3}}

InitJoin == InitWith(JoinRowsDom, Tables(IndRowsDom, MaxIndRows), {TopNMain})

SpecJoin == InitJoin /\ [][Next]_vars

(***************************************************************************)
(* Vocabulary of the properties, stated over the rows of a table without   *)
(* the groupby of the code.                                                *)
(***************************************************************************)
\* the table read_data gave the main script
Joined == read_data(act, ind)

AfterFilters ==
    pc \in {"check_missing_dates", "active_users_by_ind",
            "avg_team_sz_top_countries", "daily_summary_figues", "charts", "done"}

RowCount(t, team) == Cardinality({i \in DOMAIN t : t[i].team_id = team})

\* the teams whose largest active_users is 0
ZeroMaxTeams(t) ==
    {team \in TeamIds(t) :
        /\ \A i \in DOMAIN t : t[i].team_id = team => t[i].active_users <= 0
        /\ \E i \in DOMAIN t : t[i].team_id = team /\ t[i].active_users = 0}

\* the teams that have active_users 0 on every one of their rows
AllZero(t, team) == \A i \in DOMAIN t : t[i].team_id = team => t[i].active_users = 0

\* the teams with fewer rows than some other team
ShortTeams(t) ==
    {team \in TeamIds(t) : \E other \in TeamIds(t) : RowCount(t, team) < RowCount(t, other)}

NoDuplicates(s) == \A i, j \in DOMAIN s : i /= j => s[i] /= s[j]

\* C1: check_no_active_users returns exactly the teams whose maximum
\* active_users over all of their rows is 0, each of them once.
C1_NoActiveUsersExact ==
    pc = "filter_inactive" =>
        /\ Range(inactive_list) = ZeroMaxTeams(df)
        /\ NoDuplicates(inactive_list)

\* a call that flags one team and leaves a team that has a day without
\* active users and a day with some
C1_Witness ==
    /\ pc = "filter_inactive"
    /\ inactive_list /= <<>>
    /\ \E i, j \in DOMAIN df :
        /\ df[i].team_id = df[j].team_id
        /\ df[i].team_id \notin Range(inactive_list)
        /\ df[i].active_users = 0
        /\ df[j].active_users > 0

\* C2: on a table with rows, check_consistent_cohort returns exactly the
\* teams with fewer rows than the largest number of rows of a team, and no
\* team with that largest number.
C2_CohortExact ==
    pc = "filter_cohort" =>
        /\ Range(cohort_chk) = ShortTeams(df)
        /\ NoDuplicates(cohort_chk)
        /\ \A team \in TeamIds(df) :
            (\A other \in TeamIds(df) : RowCount(df, other) <= RowCount(df, team))
                => team \notin Range(cohort_chk)

\* a call that flags a team and keeps another
C2_Witness ==
    /\ pc = "filter_cohort"
    /\ cohort_chk /= <<>>
    /\ TeamIds(df) \ Range(cohort_chk) /= {}

OncePerDate(t) ==
    \A i, j \in DOMAIN t : (t[i].team_id = t[j].team_id /\ t[i].ds = t[j].ds) => i = j

\* C3: when every team has at most one row per date, every team that
\* check_consistent_cohort does not return has a row on every date of the
\* table.
C3_UnflaggedPresentEveryDate ==
    (pc = "filter_cohort" /\ OncePerDate(df)) =>
        \A team \in TeamIds(df) \ Range(cohort_chk) :
            \A i \in DOMAIN df :
                \E j \in DOMAIN df : df[j].team_id = team /\ df[j].ds = df[i].ds

\* C5, as claimed: the table the aggregators get is the joined table without
\* the rows of the teams that either check flags on the joined table itself.
C5_FiltersOverJoined ==
    AfterFilters =>
        df = SelectSeq(Joined, LAMBDA r :
                r.team_id \notin (ZeroMaxTeams(Joined) \cup ShortTeams(Joined)))

\* what the first filter leaves of the joined table
JoinedActive == SelectSeq(Joined, LAMBDA r : r.team_id \notin ZeroMaxTeams(Joined))

\* C5, amended: the table the aggregators get is the joined table without
\* the rows of the teams that check_no_active_users flags on the joined
\* table and of the teams that check_consistent_cohort flags on what the
\* first filter left.
C5_FiltersInSequence ==
    AfterFilters =>
        df = SelectSeq(Joined, LAMBDA r :
                r.team_id \notin (ZeroMaxTeams(Joined) \cup ShortTeams(JoinedActive)))

\* a run in which the team with the most rows is dropped as inactive, so
\* that the cohort check sees another largest number of rows than the joined
\* table has, and rows are left
C5_Witness ==
    /\ AfterFilters
    /\ inactive_list /= <<>>
    /\ ShortTeams(Joined) \ ZeroMaxTeams(Joined) /= ShortTeams(JoinedActive)
    /\ df /= <<>>

\* C6: a team with active_users 0 on all its rows is in the output of
\* check_no_active_users, the first filter removes the rows of these teams
\* and no other row, and no row of such a team is left after both filters.
C6_ZeroTeamsRemoved ==
    /\ (pc = "filter_inactive" \/ pc = "check_consistent_cohort" \/ AfterFilters) =>
        \A team \in TeamIds(Joined) :
            AllZero(Joined, team) => team \in Range(inactive_list)
    /\ pc = "check_consistent_cohort" =>
        df = SelectSeq(Joined, LAMBDA r : ~AllZero(Joined, r.team_id))
    /\ AfterFilters =>
        \A i \in DOMAIN df : ~AllZero(Joined, df[i].team_id)

\* a run with a team without any active user and a team with some, after
\* both filters
C6_Witness ==
    /\ AfterFilters
    /\ \E team \in TeamIds(Joined) : AllZero(Joined, team) /\ RowCount(Joined, team) > 1
    /\ df /= <<>>

\* C10: when every team is flagged as inactive, check_consistent_cohort gets
\* a table without rows and raises ValueError: the run stops there, with no
\* cohort list, no summary and no chart; and it raises in no other case.
C10_EmptyCohortRaises ==
    /\ (pc \notin {"read_data", "check_no_active_users", "filter_inactive",
                   "check_consistent_cohort"}
        /\ error /= "EmptyDataError"
        /\ TeamIds(Joined) \subseteq Range(inactive_list))
            => (pc = "error" /\ error = "ValueError")
    /\ (pc = "error" /\ error = "ValueError") =>
        /\ df = <<>>
        /\ TeamIds(Joined) \subseteq Range(inactive_list)
        /\ cohort_chk = Unassigned
        /\ missing_dts = Unassigned
        /\ ind_users = Unassigned
        /\ cntry_summ = Unassigned
        /\ dly_summ = Unassigned
        /\ charts = 0

\* a run over two teams, both without active users, that stopped
C10_Witness ==
    /\ pc = "error"
    /\ error = "ValueError"
    /\ Cardinality(TeamIds(Joined)) >= 2

\* C4, as claimed: avg_team_sz_top_countries returns at most top_n
\* countries, ties included, and fewer than top_n countries have more
\* distinct teams, on or after the cutoff, than a returned country.
C4_AtMostTopN ==
    pc \in {"daily_summary_figues", "charts", "done"} =>
        /\ Len(cntry_summ) <= top_n
        /\ \A k \in DOMAIN cntry_summ :
            LET late == {i \in DOMAIN df : StrGE(df[i].ds, LastMonthCutoff)}
                teams(c) == {df[i].team_id : i \in {j \in late : df[j].country = c}}
                more == {c \in {df[i].country : i \in late} :
                            Cardinality(teams(c)) >
                                Cardinality(teams(cntry_summ[k].country))}
            IN  Cardinality(more) < top_n

\* consecutive calendar days, 2020-07-22 to 2020-08-02
Calendar ==
    [d \in 1..10 |-> <<2020, 7, 21 + d>>] \o << <<2020, 8, 1>>, <<2020, 8, 2>> >>

CalPos(ds) == CHOOSE i \in DOMAIN Calendar : Calendar[i] = ds

\* the Timestamp of the i-th day of Calendar
CalStamp(i) == to_datetime(Calendar[1]) + (i - 1)

ObservedDays(t) == {CalPos(t[i].ds) : i \in DOMAIN t}

\* the days of Calendar between the first and the last observed one that
\* are not observed
GapDays(t) ==
    {i \in DOMAIN Calendar :
        /\ i \notin ObservedDays(t)
        /\ \E lo, hi \in ObservedDays(t) : lo <= i /\ i <= hi}

\* C7: check_missing_dates returns exactly the calendar days between the
\* first and the last observed date that are not observed, in ascending
\* order: the one missing day of a range with one gap, nothing for a range
\* without gap.
C7_MissingDatesExact ==
    pc \in {"active_users_by_ind", "avg_team_sz_top_countries",
            "daily_summary_figues", "charts", "done"} =>
        /\ Len(missing_dts) = Cardinality(GapDays(df))
        /\ {missing_dts[k] : k \in DOMAIN missing_dts} = {CalStamp(i) : i \in GapDays(df)}
        /\ \A j, k \in DOMAIN missing_dts : j < k => missing_dts[j] < missing_dts[k]

\* a range over the end of July with exactly one gap, 2020-08-01
C7_Witness ==
    /\ pc = "active_users_by_ind"
    /\ {df[i].ds : i \in DOMAIN df} = {<<2020, 7, 31>>, <<2020, 8, 2>>}
    /\ missing_dts = <<CalStamp(CalPos(<<2020, 8, 1>>))>>

RECURSIVE SumUsers(_, _)
\* the sum of active_users over the rows of t with an index in I
SumUsers(t, I) ==
    IF I = {} THEN 0
    ELSE LET i == CHOOSE i \in I : TRUE
         IN  t[i].active_users + SumUsers(t, I \ {i})

IndUsersAssigned ==
    pc \in {"avg_team_sz_top_countries", "daily_summary_figues", "charts", "done"}

\* the rows of an industry in the 7 calendar days that end at the latest
\* date of the table
FinalWeekRows(t, industry) ==
    LET last == SetMax(ObservedDays(t))
    IN  {i \in DOMAIN t :
            /\ t[i].industry = industry
            /\ CalPos(t[i].ds) > last - WeekDays
            /\ CalPos(t[i].ds) <= last}

CutoffRows(t, industry) ==
    {i \in DOMAIN t :
        /\ t[i].industry = industry
        /\ CalPos(t[i].ds) >= CalPos(<<2020, 7, 25>>)}

MatchCount(a) == Cardinality({j \in DOMAIN ind : ind[j].industry_id = a.industry_id})

\* the name the loader gives an industry of the map
Canonical(name) == IF name = <<"Health", " ", "Care">> THEN <<"Healthcare">> ELSE name

ActivityOf(r) ==
    [ds |-> r.ds, team_id |-> r.team_id, country |-> r.country,
     industry_id |-> r.industry_id, active_users |-> r.active_users,
     messages_7d |-> r.messages_7d]

\* C9: each activity row is in the joined table max(1, k) times, k being
\* the number of map rows with its industry_id: once without industry name
\* for k = 0, and once for each matching map row, with its name, otherwise;
\* the joined table has no other row.
C9_JoinPreservesRows ==
    pc = "check_no_active_users" =>
        /\ \A i \in DOMAIN df : ActivityOf(df[i]) \in Range(act)
        /\ \A a \in Range(act) :
            LET copies == Cardinality({i \in DOMAIN act : act[i] = a})
                k == MatchCount(a)
                joined(n) == {i \in DOMAIN df : ActivityOf(df[i]) = a /\ df[i].industry = n}
            IN  /\ Cardinality({i \in DOMAIN df : ActivityOf(df[i]) = a}) =
                       copies * (IF k = 0 THEN 1 ELSE k)
                /\ k = 0 => Cardinality(joined(NaN)) = copies
                /\ k > 0 =>
                    \A n \in {Canonical(ind[j].industry) : j \in DOMAIN ind} :
                        Cardinality(joined(n)) =
                            copies * Cardinality({j \in DOMAIN ind :
                                /\ ind[j].industry_id = a.industry_id
                                /\ Canonical(ind[j].industry) = n})

\* a join with an activity row without match, one with one match and one
\* with two
C9_Witness ==
    /\ pc = "check_no_active_users"
    /\ \E a, b, c \in Range(act) :
        MatchCount(a) = 0 /\ MatchCount(b) = 1 /\ MatchCount(c) = 2

====
